---- MODULE Spec2Model ----
(***************************************************************************)
(* Model of the Jira -> GitLab issue relay of src/app2.py.                 *)
(*                                                                         *)
(* The state is the SQLite database (tables links and processed), the      *)
(* target system (GitLab: the next issue iid it hands out and the calls it *)
(* has answered), a logical clock standing for _now_iso(), and one record  *)
(* per delivery handled by jira_webhook.                                   *)
(*                                                                         *)
(* jira_webhook is an async handler whose database calls are synchronous:  *)
(* a delivery can be suspended only at an await.  The steps of a delivery  *)
(* are therefore                                                           *)
(*   Deliver      lines 260-291/296-305: fingerprint, dedup read, extract, *)
(*                scope decision, Link read, and either an answer or the   *)
(*                target call being sent;                                  *)
(*   GitlabAnswer the target system answers the call (or the transport     *)
(*                fails);                                                  *)
(*   Resume       lines 195-197/216-217 and 292-294/306-308: the status    *)
(*                check, the Link write, the fingerprint mark, the answer. *)
(* A write to the store can fail with a storage error (sqlite3 raises),    *)
(* which leaves that table unchanged and ends the request.  A call that    *)
(* fails (status >= 300, transport failure) changes nothing at the target. *)
(* The database file outlives the process, so a behaviour starts from a    *)
(* fresh store or from one that earlier deliveries left (Stores).          *)
(***************************************************************************)
EXTENDS Integers, Sequences, FiniteSets, TLC

VARIABLES allowed, processed, links, gitlab_next_iid, gitlab_log, clock, req,
          env, pure

vars == <<allowed, processed, links, gitlab_next_iid, gitlab_log, clock, req,
          env, pure>>

\* ------------------------------------------------------------------ bounds

\* Number of deliveries in one behaviour.
MaxReqs == 2

Reqs == 1..MaxReqs

\* ------------------------------------------------------- optional values

\* Python's None and a present value.
None == <<>>
Some(x) == <<x>>

\* Python truthiness of an Optional[str]: neither None nor "".
Truthy(o) == o # None /\ o[1] # ""

\* `o or ""` for an Optional[str].
OrEmpty(o) == IF Truthy(o) THEN o[1] ELSE ""

\* ----------------------------------------------------------- configuration

GITLAB_PROJECT_ID == "42"

\* The allow-lists a deployment is started with (ALLOWED_ASSIGNEES).
AllowLists == { <<>>, <<"alice">> }

\* JIRA_TO_GITLAB_USER_ID_JSON: alice has a numeric identifier, bob a value
\* int() rejects, anyone else has no entry.
UserIdKeys == {"alice", "bob"}
JIRA_TO_GITLAB_USER_ID == [a \in UserIdKeys |->
    IF a = "alice" THEN [numeric |-> TRUE, n |-> 7]
                   ELSE [numeric |-> FALSE, n |-> 0]]

DONE_STATUSES == {"Done", "Closed", "Resolved"}

LABEL_PREFIX_STATUS == "jira:status:"
LABEL_OUT_OF_SCOPE == "sync:out-of-scope"
LABEL_IN_SCOPE == "sync:in-scope"
SYNC_MARKER_PREFIX == "JIRA_KEY:"

\* ------------------------------------------------------------ str helpers

IsSpace(c) == c \in {" ", "\t", "\n", "\r", "\f"}

RECURSIVE LStrip(_)
LStrip(s) == IF Len(s) > 0 /\ IsSpace(SubSeq(s, 1, 1)) THEN LStrip(Tail(s)) ELSE s

RECURSIVE RStrip(_)
RStrip(s) == IF Len(s) > 0 /\ IsSpace(SubSeq(s, Len(s), Len(s)))
             THEN RStrip(SubSeq(s, 1, Len(s) - 1)) ELSE s

\* str.strip()
Strip(s) == RStrip(LStrip(s))

\* str.startswith(p)
StartsWith(s, p) == Len(s) >= Len(p) /\ SubSeq(s, 1, Len(p)) = p

\* `m in s` for strings
Contains(s, m) == \E i \in 0..(Len(s) - Len(m)) : SubSeq(s, i + 1, i + Len(m)) = m

\* ",".join(labels)
RECURSIVE Join(_)
Join(labels) ==
    IF labels = <<>> THEN ""
    ELSE IF Len(labels) = 1 THEN labels[1]
         ELSE labels[1] \o "," \o Join(Tail(labels))

InSeq(x, seq) == \E i \in 1..Len(seq) : seq[i] = x

\* ---------------------------------------------------------------- payloads

\* A JSON list element of issue.fields.labels: a string, or something else.
JStr(s) == [str |-> TRUE, s |-> s]
JOther == [str |-> FALSE, s |-> ""]

\* issue.fields.assignee as Jira sends it.
Assignee(name) == Some([name |-> Some(name), key |-> None, accountId |-> None])

\* The webhook documents delivered in a behaviour.  `assignee` is None or an
\* object with optional name/key/accountId; `labels` is a JSON list.
\* `bad` names the parts of the document (issue, fields, status, assignee,
\* labels) that hold a truthy value of another JSON type than the object or
\* list Jira sends, such as a string.
Payload(k, u, a, st, ls) ==
    [ webhookEvent |-> Some("jira:issue_updated"),
      issue_event_type_name |-> None,
      key |-> k, updated |-> u, summary |-> Some("Fix login"),
      description |-> None, status |-> st, assignee |-> a, labels |-> ls,
      bad |-> {} ]

\* The document `payload` with the parts in `bad` replaced by a string: what
\* lay inside a replaced part is gone.
Malformed(payload, bad) ==
    LET no_issue == "issue" \in bad
        no_fields == no_issue \/ "fields" \in bad
    IN  [ payload EXCEPT
            !.key = IF no_issue THEN None ELSE @,
            !.updated = IF no_fields THEN None ELSE @,
            !.summary = IF no_fields THEN None ELSE @,
            !.description = IF no_fields THEN None ELSE @,
            !.status = IF no_fields \/ "status" \in bad THEN None ELSE @,
            !.assignee = IF no_fields \/ "assignee" \in bad THEN None ELSE @,
            !.labels = IF no_fields \/ "labels" \in bad THEN <<>> ELSE @,
            !.bad = IF no_issue THEN {"issue"}
                    ELSE IF "fields" \in bad THEN {"fields"} ELSE bad ]

Payloads ==
    { Payload(Some("PROJ-1"), Some("t1"), Assignee("alice"), Some("Done"),
              <<JStr("bug")>>),
      Payload(Some("PROJ-1"), Some("t2"), None, Some("Open"),
              <<JStr(" bug "), JStr("sync:in-scope"), JStr("jira:status:Done"),
                JStr("ui,sync:in-scope")>>),
      Payload(Some("PROJ-1"), Some("t2"), Assignee("bob"), None, <<JOther>>),
      Payload(None, Some("t1"), Assignee("alice"), Some("Done"), <<>>) }

\* ------------------------------------------------------- pure functions

\* `a or b` for Optional[str]
Or2(a, b) == IF Truthy(a) THEN a ELSE b

\* _fingerprint without the `updated` of line 64.
fingerprint_no_updated(payload) ==
    LET key == OrEmpty(payload.key)
        event_type == OrEmpty(Or2(payload.webhookEvent, payload.issue_event_type_name))
    IN  event_type \o "|" \o key \o "|"

\* lines 62-64: .get on a value that is no dict raises AttributeError
fingerprint_raises(payload) == payload.bad \cap {"issue", "fields"} # {}

fingerprint(payload) ==
    LET key == OrEmpty(payload.key)
        updated == OrEmpty(payload.updated)
        event_type == OrEmpty(Or2(payload.webhookEvent, payload.issue_event_type_name))
    IN  event_type \o "|" \o key \o "|" \o updated

\* lines 118, 119, 126, 130: .get on a value that is no dict raises
\* AttributeError
jira_extract_raises(payload) ==
    payload.bad \cap {"issue", "fields", "status", "assignee"} # {}

jira_extract(payload) ==
    LET assignee_obj == payload.assignee
        assignee == IF assignee_obj = None THEN None
                    ELSE Or2(Or2(assignee_obj[1].name, assignee_obj[1].key),
                             assignee_obj[1].accountId)
    IN  [ key |-> payload.key,
          summary |-> OrEmpty(payload.summary),
          description |-> IF payload.description = None THEN "" ELSE payload.description[1],
          status |-> OrEmpty(payload.status),
          assignee |-> assignee,
          labels |-> IF "labels" \in payload.bad THEN <<>> ELSE payload.labels ]

\* _build_description without the test of line 147.
build_description_always_appends(jira_key, jira_desc) ==
    LET marker == SYNC_MARKER_PREFIX \o " " \o jira_key
    IN  IF Strip(jira_desc) # "" THEN jira_desc \o "\n\n---\n" \o marker
        ELSE marker

build_description(jira_key, jira_desc) ==
    LET marker == SYNC_MARKER_PREFIX \o " " \o jira_key
    IN  IF Contains(jira_desc, marker) THEN jira_desc
        ELSE IF Strip(jira_desc) # "" THEN jira_desc \o "\n\n---\n" \o marker
        ELSE marker

\* lines 154-157: the stripped, non-empty string elements
RECURSIVE StrippedLabels(_)
StrippedLabels(ls) ==
    IF ls = <<>> THEN <<>>
    ELSE IF Head(ls).str /\ Strip(Head(ls).s) # ""
         THEN <<Strip(Head(ls).s)>> \o StrippedLabels(Tail(ls))
         ELSE StrippedLabels(Tail(ls))

\* line 159
RECURSIVE DropStatusLabels(_)
DropStatusLabels(out) ==
    IF out = <<>> THEN <<>>
    ELSE IF StartsWith(Head(out), LABEL_PREFIX_STATUS) THEN DropStatusLabels(Tail(out))
         ELSE <<Head(out)>> \o DropStatusLabels(Tail(out))

\* line 162 left out: nothing is dropped.
DropScopeLabels_keep(out) == out

\* line 162
RECURSIVE DropScopeLabels(_)
DropScopeLabels(out) ==
    IF out = <<>> THEN <<>>
    ELSE IF Head(out) \in {LABEL_OUT_OF_SCOPE, LABEL_IN_SCOPE} THEN DropScopeLabels(Tail(out))
         ELSE <<Head(out)>> \o DropScopeLabels(Tail(out))

\* lines 165-171: first occurrences, in order
RECURSIVE Uniq(_, _)
Uniq(out, seen) ==
    IF out = <<>> THEN <<>>
    ELSE IF Head(out) \in seen THEN Uniq(Tail(out), seen)
         ELSE <<Head(out)>> \o Uniq(Tail(out), seen \cup {Head(out)})

labels_merge(jira_labels, status, in_scope) ==
    LET out1 == DropStatusLabels(StrippedLabels(jira_labels))
        out2 == Append(out1, IF status # "" THEN LABEL_PREFIX_STATUS \o status
                             ELSE LABEL_PREFIX_STATUS \o "unknown")
        out3 == DropScopeLabels(out2)
        out4 == Append(out3, IF in_scope THEN LABEL_IN_SCOPE ELSE LABEL_OUT_OF_SCOPE)
    IN  Uniq(out4, {})

\* _is_in_scope without its first test: an empty allow-list admits everything.
is_in_scope_no_assignee_test(assignee) ==
    IF allowed = <<>> THEN TRUE
    ELSE Truthy(assignee) /\ InSeq(assignee[1], allowed)

\* _is_in_scope with an empty allow-list admitting nobody.
is_in_scope_empty_denies(assignee) ==
    Truthy(assignee) /\ InSeq(assignee[1], allowed)

is_in_scope(assignee) ==
    IF ~Truthy(assignee) THEN FALSE
    ELSE IF allowed = <<>> THEN TRUE
    ELSE InSeq(assignee[1], allowed)

\* _map_assignee_to_gitlab_ids without the test of lines 227-228.
map_assignee_to_gitlab_ids_any_scope(assignee, in_scope) ==
    IF ~Truthy(assignee) THEN <<>>
    ELSE IF assignee[1] \notin DOMAIN JIRA_TO_GITLAB_USER_ID THEN <<>>
    ELSE IF ~JIRA_TO_GITLAB_USER_ID[assignee[1]].numeric THEN <<>>
    ELSE <<JIRA_TO_GITLAB_USER_ID[assignee[1]].n>>

map_assignee_to_gitlab_ids(assignee, in_scope) ==
    IF ~in_scope THEN <<>>
    ELSE IF ~Truthy(assignee) THEN <<>>
    ELSE IF assignee[1] \notin DOMAIN JIRA_TO_GITLAB_USER_ID THEN <<>>
    ELSE IF ~JIRA_TO_GITLAB_USER_ID[assignee[1]].numeric THEN <<>>
    ELSE <<JIRA_TO_GITLAB_USER_ID[assignee[1]].n>>

\* _state_event_from_status without line 244: no token for a status not done.
state_event_from_status_no_reopen(status) ==
    IF status = "" THEN None
    ELSE IF status \in DONE_STATUSES THEN Some("close")
    ELSE None

state_event_from_status(status) ==
    IF status = "" THEN None
    ELSE IF status \in DONE_STATUSES THEN Some("close")
    ELSE Some("reopen")

\* line 290 with the token passed on as it is.
create_state_event_verbatim(state_event) == state_event

\* line 290: "close" if state_event == "close" else None
create_state_event(state_event) ==
    IF state_event = Some("close") THEN Some("close") ELSE None

\* ------------------------------------------------------------ store (SQLite)

\* A row of links and a row of processed (lines 42-58).
LinkRow(jira_key, iid, now, sync_state) ==
    [ jira_key |-> jira_key, gitlab_project_id |-> GITLAB_PROJECT_ID,
      gitlab_issue_iid |-> iid, last_synced_at |-> now, sync_state |-> sync_state ]

ProcessedRow(fp, now) == [event_fingerprint |-> fp, created_at |-> now]

\* SELECT 1 FROM processed WHERE event_fingerprint = ?
is_processed(fp) == \E row \in processed : row.event_fingerprint = fp

\* _mark_processed without its commit: the table stays as it was.
mark_processed_uncommitted(fp, now) == processed

\* INSERT OR IGNORE INTO processed ...; the table after the statement, written
\* at time `now`.
mark_processed(fp, now) ==
    IF \E row \in processed : row.event_fingerprint = fp THEN processed
    ELSE processed \cup {ProcessedRow(fp, now)}

\* A lookup that finds no row, whatever the table holds.
get_link_miss(jira_key) == None

\* SELECT ... FROM links WHERE jira_key = ?; None or Some(row)
get_link(jira_key) ==
    IF \E row \in links : row.jira_key = jira_key
    THEN Some(CHOOSE row \in links : row.jira_key = jira_key)
    ELSE None

\* An UPDATE in place of the upsert: no row is inserted.
upsert_link_update_only(jira_key, iid, sync_state, now) ==
    {IF row.jira_key = jira_key THEN LinkRow(jira_key, iid, now, sync_state) ELSE row :
        row \in links}

\* INSERT INTO links ... ON CONFLICT(jira_key) DO UPDATE SET ...; the table
\* after the statement, written at time `now`.
upsert_link(jira_key, iid, sync_state, now) ==
    {row \in links : row.jira_key # jira_key}
        \cup {LinkRow(jira_key, iid, now, sync_state)}

\* ------------------------------------------------------ target system calls

\* The form data of POST .../issues.
gitlab_create_issue(title, description, labels, assignee_ids, state_event) ==
    [ kind |-> "create", iid |-> 0,
      title |-> title, description |-> description,
      labels |-> Join(labels),
      has_assignee_ids |-> assignee_ids # <<>>,
      assignee_ids |-> assignee_ids,
      state_event |-> state_event ]

\* The form data of PUT .../issues/{iid}; an empty assignee list is sent as "".
gitlab_update_issue(iid, title, description, labels, assignee_ids, state_event) ==
    [ kind |-> "update", iid |-> iid,
      title |-> title, description |-> description,
      labels |-> Join(labels),
      has_assignee_ids |-> TRUE,
      assignee_ids |-> assignee_ids,
      state_event |-> state_event ]

\* ------------------------------------------------------------- responses

WebhookResponse(action, jira_key, gitlab_iid) ==
    [ status |-> 200, ok |-> TRUE, action |-> action,
      jira_key |-> jira_key, gitlab_iid |-> gitlab_iid ]

\* An HTTPException, or the 500 an uncaught exception becomes.
ErrorResponse(status, detail) ==
    [ status |-> status, ok |-> FALSE, action |-> detail,
      jira_key |-> None, gitlab_iid |-> None ]

\* ------------------------------------------------------------------ state

\* A request that has passed lines 252-258 and awaits its body (line 260).
Idle ==
    [ pc |-> "idle", x_sync_token |-> None, token |-> None,
      payload |-> None, fp |-> "", in_scope |-> FALSE,
      link |-> None, call |-> None, answer |-> "", iid |-> 0, resp |-> None ]

\* The environment of a deployment that is fully configured (lines 14-17).
Configured(secret) ==
    [ JIRA_SHARED_SECRET |-> secret, GITLAB_BASE_URL |-> "https://gitlab.example",
      GITLAB_PROJECT_ID |-> GITLAB_PROJECT_ID, GITLAB_TOKEN |-> "glpat" ]

\* No pure function is being applied.
NoPure == [fn |-> "none"]

\* The database file outlives the process.  The stores a process can start
\* with: a fresh one, and the ones left by earlier deliveries for PROJ-1 (a
\* create at t0; the same followed by an out-of-scope update at t0b).
Stores ==
    { [ processed |-> {}, links |-> {}, gitlab_next_iid |-> 1, clock |-> 0 ],
      [ processed |-> {ProcessedRow("jira:issue_updated|PROJ-1|t0", 1)},
        links |-> {LinkRow("PROJ-1", 1, 0, "in-scope")},
        gitlab_next_iid |-> 2, clock |-> 2 ],
      [ processed |-> {ProcessedRow("jira:issue_updated|PROJ-1|t0", 1),
                       ProcessedRow("jira:issue_updated|PROJ-1|t0b", 3)},
        links |-> {LinkRow("PROJ-1", 1, 2, "out-of-scope")},
        gitlab_next_iid |-> 2, clock |-> 4 ] }

Init ==
    /\ allowed \in AllowLists
    /\ \E store \in Stores :
        /\ processed = store.processed
        /\ links = store.links
        /\ gitlab_next_iid = store.gitlab_next_iid
        /\ clock = store.clock
    /\ gitlab_log = <<>>
    /\ req = [r \in Reqs |-> Idle]
    /\ env = Configured("")
    /\ pure = NoPure

\* The request ends with `resp`.
Return(r, resp, more) ==
    [req EXCEPT ![r] = [more EXCEPT !.pc = "done", !.resp = Some(resp)]]

\* lines 260-291 and 296-305: everything up to the first await of a target
\* call, or up to the answer when no call is made.  store_ok: the
\* _mark_processed of a skip path does not raise.
Deliver(r, payload, store_ok) ==
    /\ req[r].pc = "idle"
    /\ r > 1 => req[r - 1].pc # "idle"
    /\ LET fp == fingerprint(payload)
           data == jira_extract(payload)
           jira_key == data.key
           me == [req[r] EXCEPT !.payload = Some(payload), !.fp = fp]
       IN
       IF fingerprint_raises(payload) THEN
           /\ req' = Return(r, ErrorResponse(500, "AttributeError"),
                            [req[r] EXCEPT !.payload = Some(payload)])
           /\ UNCHANGED <<processed, links, clock>>
       ELSE IF is_processed(fp) THEN
           /\ req' = Return(r, WebhookResponse("dedup", None, None), me)
           /\ UNCHANGED <<processed, links, clock>>
       ELSE IF jira_extract_raises(payload) THEN
           /\ req' = Return(r, ErrorResponse(500, "AttributeError"), me)
           /\ UNCHANGED <<processed, links, clock>>
       ELSE IF ~Truthy(jira_key) THEN
           /\ clock' = clock + 1
           /\ UNCHANGED links
           /\ IF store_ok
              THEN /\ processed' = mark_processed(fp, clock)
                   /\ req' = Return(r, WebhookResponse("skip_no_key", None, None), me)
              ELSE /\ UNCHANGED processed
                   /\ req' = Return(r, ErrorResponse(500, "storage"), me)
       ELSE
           LET in_scope == is_in_scope(data.assignee)
               link == get_link(jira_key[1])
               title == IF data.summary # "" THEN data.summary ELSE jira_key[1]
               description == build_description(jira_key[1], data.description)
               state_event == state_event_from_status(data.status)
               labels == labels_merge(data.labels, data.status, in_scope)
               assignee_ids == map_assignee_to_gitlab_ids(data.assignee, in_scope)
               mine == [me EXCEPT !.in_scope = in_scope, !.link = link]
           IN
           IF link = None THEN
               IF ~in_scope THEN
                   /\ clock' = clock + 1
                   /\ UNCHANGED links
                   /\ IF store_ok
                      THEN /\ processed' = mark_processed(fp, clock)
                           /\ req' = Return(r, WebhookResponse("skip_create_out_of_scope",
                                                               jira_key, None), mine)
                      ELSE /\ UNCHANGED processed
                           /\ req' = Return(r, ErrorResponse(500, "storage"), mine)
               ELSE
                   /\ req' = [req EXCEPT ![r] = [mine EXCEPT
                          !.pc = "create_sent",
                          !.call = Some(gitlab_create_issue(title, description, labels,
                                     assignee_ids, create_state_event(state_event)))]]
                   /\ UNCHANGED <<processed, links, clock>>
           ELSE
               /\ req' = [req EXCEPT ![r] = [mine EXCEPT
                      !.pc = "update_sent",
                      !.iid = link[1].gitlab_issue_iid,
                      !.call = Some(gitlab_update_issue(link[1].gitlab_issue_iid, title,
                                 description, labels, assignee_ids, state_event))]]
               /\ UNCHANGED <<processed, links, clock>>
    /\ UNCHANGED <<allowed, gitlab_next_iid, gitlab_log, env, pure>>

\* What the HTTP call of a request can come back with: a 2xx answer, a
\* status >= 300, or an httpx transport failure.
Outcomes == {"ok", "http_error", "transport_error"}

\* The target system answers the call of request r.  A create that succeeds
\* is given the next iid of the project.
GitlabAnswer(r, outcome) ==
    /\ req[r].pc \in {"create_sent", "update_sent"}
    /\ LET call == req[r].call[1]
           iid == IF call.kind = "create" THEN gitlab_next_iid ELSE call.iid
       IN
       /\ gitlab_log' = Append(gitlab_log,
              [r |-> r, fp |-> req[r].fp, call |-> call, outcome |-> outcome,
               iid |-> IF outcome = "ok" THEN iid ELSE 0])
       /\ gitlab_next_iid' = IF outcome = "ok" /\ call.kind = "create"
                             THEN gitlab_next_iid + 1 ELSE gitlab_next_iid
       /\ req' = [req EXCEPT ![r] = [@ EXCEPT
              !.pc = IF call.kind = "create" THEN "create_answered" ELSE "update_answered",
              !.answer = outcome,
              !.iid = IF outcome = "ok" THEN iid ELSE @]]
    /\ UNCHANGED <<allowed, processed, links, clock, env, pure>>

\* lines 194-196 / 215-217: the awaited call raises, on a transport failure
\* (httpx) or on a status >= 300 (HTTPException 502).
call_raises_transport_only(answer) == answer = "transport_error"

call_raises(answer) == answer # "ok"

\* line 306: the sync_state an update stores
sync_state_always_in_scope(in_scope) == "in-scope"

sync_state_of(in_scope) == IF in_scope THEN "in-scope" ELSE "out-of-scope"

\* lines 195-197 / 216-217, then 292-294 / 306-308.  link_ok, mark_ok: the
\* _upsert_link and the _mark_processed do not raise.
Resume(r, link_ok, mark_ok) ==
    /\ req[r].pc \in {"create_answered", "update_answered"}
    /\ LET me == req[r]
           jira_key == jira_extract(me.payload[1]).key
           created == me.pc = "create_answered"
           sync_state == IF created THEN "in-scope" ELSE sync_state_of(me.in_scope)
       IN
       IF call_raises(me.answer) THEN
           /\ req' = Return(r, IF me.answer = "transport_error"
                               THEN ErrorResponse(500, "transport")
                               ELSE ErrorResponse(502, "GitLab failed"), me)
           /\ UNCHANGED <<processed, links, clock>>
       ELSE IF ~link_ok THEN
           /\ req' = Return(r, ErrorResponse(500, "storage"), me)
           /\ clock' = clock + 1
           /\ UNCHANGED <<processed, links>>
       ELSE
           /\ links' = upsert_link(jira_key[1], me.iid, sync_state, clock)
           /\ clock' = clock + 2
           /\ IF ~mark_ok THEN
                  /\ req' = Return(r, ErrorResponse(500, "storage"), me)
                  /\ UNCHANGED processed
              ELSE
                  /\ processed' = mark_processed(me.fp, clock + 1)
                  /\ req' = Return(r, WebhookResponse(IF created THEN "created" ELSE "updated",
                                                      jira_key, Some(me.iid)), me)
    /\ UNCHANGED <<allowed, gitlab_next_iid, gitlab_log, env, pure>>

Next ==
    \E r \in Reqs :
        \/ \E payload \in Payloads, store_ok \in BOOLEAN : Deliver(r, payload, store_ok)
        \/ \E outcome \in Outcomes : GitlabAnswer(r, outcome)
        \/ \E link_ok, mark_ok \in BOOLEAN : Resume(r, link_ok, mark_ok)

Spec == Init /\ [][Next]_vars

\* ------------------------------------------- authorization and configuration

\* The environments a deployment can run in: the secret set or not, and each
\* of the three target-system settings set or not.
Envs ==
    [ JIRA_SHARED_SECRET : {"", "s3cret"},
      GITLAB_BASE_URL : {"", "https://gitlab.example"},
      GITLAB_PROJECT_ID : {"", GITLAB_PROJECT_ID},
      GITLAB_TOKEN : {"", "glpat"} ]

\* What requests carry in the X-Sync-Token header and in ?token=: nothing, a
\* wrong header, the secret in the header beside a wrong parameter, the secret
\* in the parameter alone.
TokenPairs ==
    { <<None, None>>, <<Some("wrong"), None>>,
      <<Some("s3cret"), Some("wrong")>>, <<None, Some("s3cret")>> }

\* line 253 with any presented token accepted.
token_ok_any_token(x_sync_token, token) == x_sync_token # None \/ token # None

\* line 253
token_ok(x_sync_token, token) ==
    \/ x_sync_token = Some(env.JIRA_SHARED_SECRET)
    \/ token = Some(env.JIRA_SHARED_SECRET)

\* line 257: not GITLAB_BASE_URL or not GITLAB_PROJECT_ID or not GITLAB_TOKEN
gitlab_env_missing ==
    env.GITLAB_BASE_URL = "" \/ env.GITLAB_PROJECT_ID = "" \/ env.GITLAB_TOKEN = ""

\* A request the server has accepted but whose handler has not started.
New == [Idle EXCEPT !.pc = "new"]

\* lines 252-258: the handler checks the token and the configuration, and
\* either raises or goes on to await the body.
Admit(r, x_sync_token, token) ==
    /\ req[r].pc = "new"
    /\ r > 1 => req[r - 1].pc # "new"
    /\ LET me == [req[r] EXCEPT !.x_sync_token = x_sync_token, !.token = token]
       IN
       IF env.JIRA_SHARED_SECRET # "" /\ ~token_ok(x_sync_token, token) THEN
           req' = Return(r, ErrorResponse(401, "Bad token"), me)
       ELSE IF gitlab_env_missing THEN
           req' = Return(r, ErrorResponse(500, "GitLab env is not configured"), me)
       ELSE
           req' = [req EXCEPT ![r] = [me EXCEPT !.pc = "idle"]]
    /\ UNCHANGED <<allowed, processed, links, gitlab_next_iid, gitlab_log, clock,
                   env, pure>>

\* The events delivered to the gated handler: a keyed event that is in scope,
\* and an event without a key.
GatePayloads ==
    { Payload(Some("PROJ-1"), Some("t1"), Assignee("alice"), Some("Done"), <<JStr("bug")>>),
      Payload(None, Some("t1"), Assignee("alice"), Some("Done"), <<>>) }

\* The stores the gated handler starts with: the fresh one and the one with an
\* in-scope Link.
GateStores == {store \in Stores : store.clock <= 2}

InitGate ==
    /\ allowed = <<>>
    /\ \E store \in GateStores :
        /\ processed = store.processed
        /\ links = store.links
        /\ gitlab_next_iid = store.gitlab_next_iid
        /\ clock = store.clock
    /\ gitlab_log = <<>>
    /\ req = [r \in Reqs |-> New]
    /\ env \in Envs
    /\ pure = NoPure

NextGate ==
    \E r \in Reqs :
        \/ \E tokens \in TokenPairs : Admit(r, tokens[1], tokens[2])
        \/ \E payload \in GatePayloads, store_ok \in BOOLEAN : Deliver(r, payload, store_ok)
        \/ \E outcome \in Outcomes : GitlabAnswer(r, outcome)
        \/ \E link_ok, mark_ok \in BOOLEAN : Resume(r, link_ok, mark_ok)

\* The handler from its first line, under every environment.
SpecGate == InitGate /\ [][NextGate]_vars

\* ------------------------------------------------- the functions on their own

MaxAllowed == 2
MaxLabels == 2
MaxDescParts == 3

\* All sequences over S of length at most n.
SeqsUpTo(S, n) == UNION {[1..k -> S] : k \in 0..n}

RECURSIVE Concat(_)
Concat(parts) == IF parts = <<>> THEN "" ELSE Head(parts) \o Concat(Tail(parts))

\* ALLOWED_ASSIGNEES as line 19 can build it, and the assignees line 271 can
\* pass to _is_in_scope.
PureAllowLists == SeqsUpTo({"alice", "bob"}, MaxAllowed)
PureAssignees == {None, Some(""), Some("alice"), Some("bob"), Some("carol")}

\* Label lists: plain labels with and without blanks around them, both scope
\* markers, status labels, a blank string and an element that is no string.
LabelElements ==
    { JStr("bug"), JStr(" bug "), JStr(LABEL_IN_SCOPE), JStr(LABEL_OUT_OF_SCOPE \o " "),
      JStr("jira:status:Done"), JStr("jira:status:"), JStr("  "), JOther }
PureLabelLists == SeqsUpTo(LabelElements, MaxLabels)
PureStatuses == {"", "Done", "Open", "Done "}

\* Descriptions: concatenations of pieces that can form the marker of PROJ-1,
\* the marker of PROJ-10, text around them, or blanks alone.
DescParts == {"JIRA_KEY: PROJ-1", "JIRA_KEY:", "0", " ", "text"}
PureDescriptions == {Concat(parts) : parts \in SeqsUpTo(DescParts, MaxDescParts)}
PureKeys == {"PROJ-1", "PROJ-10"}

\* A list of str as the JSON list it would be read back as.
AsJson(labels) == [i \in DOMAIN labels |-> JStr(labels[i])]

\* One call of _is_in_scope.
ApplyIsInScope(assignee) ==
    /\ pure = NoPure
    /\ pure' = [fn |-> "is_in_scope", assignee |-> assignee, out |-> is_in_scope(assignee)]

\* One call of _labels_merge, and a second call on what the first returned.
ApplyLabelsMerge(jira_labels, status, in_scope) ==
    /\ pure = NoPure
    /\ pure' = [fn |-> "labels_merge", jira_labels |-> jira_labels, status |-> status,
                in_scope |-> in_scope, out |-> labels_merge(jira_labels, status, in_scope),
                again |-> None]

ReapplyLabelsMerge ==
    /\ pure.fn = "labels_merge" /\ pure.again = None
    /\ pure' = [pure EXCEPT
           !.again = Some(labels_merge(AsJson(pure.out), pure.status, pure.in_scope))]

\* One call of _build_description, and a second call on what the first returned.
ApplyBuildDescription(jira_key, jira_desc) ==
    /\ pure = NoPure
    /\ pure' = [fn |-> "build_description", jira_key |-> jira_key, jira_desc |-> jira_desc,
                out |-> build_description(jira_key, jira_desc), again |-> None]

ReapplyBuildDescription ==
    /\ pure.fn = "build_description" /\ pure.again = None
    /\ pure' = [pure EXCEPT !.again = Some(build_description(pure.jira_key, pure.out))]

\* lines 271 and 278, and the assignee_ids of the update call of lines
\* 297-305 built from them.
ApplyAssigneeIds(assignee) ==
    /\ pure = NoPure
    /\ LET in_scope == is_in_scope(assignee)
           assignee_ids == map_assignee_to_gitlab_ids(assignee, in_scope)
       IN  pure' = [fn |-> "assignee_ids", assignee |-> assignee, in_scope |-> in_scope,
                    out |-> gitlab_update_issue(1, "", "", <<>>, assignee_ids,
                                                None).assignee_ids]

InitPure ==
    /\ allowed \in PureAllowLists
    /\ processed = {} /\ links = {} /\ gitlab_next_iid = 1 /\ clock = 0
    /\ gitlab_log = <<>>
    /\ req = [r \in Reqs |-> Idle]
    /\ env = Configured("")
    /\ pure = NoPure

NextPure ==
    /\ \/ pure = NoPure /\ \E assignee \in PureAssignees : ApplyIsInScope(assignee)
       \/ pure = NoPure /\
              \E jira_labels \in PureLabelLists, status \in PureStatuses, in_scope \in BOOLEAN :
                  ApplyLabelsMerge(jira_labels, status, in_scope)
       \/ ReapplyLabelsMerge
       \/ pure = NoPure /\
              \E jira_key \in PureKeys, jira_desc \in PureDescriptions :
                  ApplyBuildDescription(jira_key, jira_desc)
       \/ ReapplyBuildDescription
       \/ pure = NoPure /\ \E assignee \in PureAssignees : ApplyAssigneeIds(assignee)
    /\ UNCHANGED <<allowed, processed, links, gitlab_next_iid, gitlab_log, clock, req, env>>

\* The pure functions, each applied to inputs drawn from the sets above.
SpecPure == InitPure /\ [][NextPure]_vars

\* -------------------------------------------------- the handler, by status

\* Events for PROJ-1 with an in-scope assignee that differ in status: done,
\* not done, absent.
StatusPayloads ==
    { Payload(Some("PROJ-1"), Some("t1"), Assignee("alice"), Some("Done"), <<JStr("bug")>>),
      Payload(Some("PROJ-1"), Some("t1"), Assignee("alice"), Some("Open"), <<JStr("bug")>>),
      Payload(Some("PROJ-1"), Some("t2"), Assignee("alice"), None, <<>>) }

InitStatus ==
    /\ allowed = <<"alice">>
    /\ \E store \in GateStores :
        /\ processed = store.processed
        /\ links = store.links
        /\ gitlab_next_iid = store.gitlab_next_iid
        /\ clock = store.clock
    /\ gitlab_log = <<>>
    /\ req = [r \in Reqs |-> Idle]
    /\ env = Configured("")
    /\ pure = NoPure

NextStatus ==
    \E r \in Reqs :
        \/ \E payload \in StatusPayloads, store_ok \in BOOLEAN : Deliver(r, payload, store_ok)
        \/ \E outcome \in Outcomes : GitlabAnswer(r, outcome)
        \/ \E link_ok, mark_ok \in BOOLEAN : Resume(r, link_ok, mark_ok)

\* The handler of Spec, fed the events above.
SpecStatus == InitStatus /\ [][NextStatus]_vars

\* ------------------------------------------- the handler, by document shape

\* Documents for PROJ-1 in which one part is a string where Jira sends an
\* object or a list, and a document without `issue`.
ShapePayloads ==
    LET doc == Payload(Some("PROJ-1"), Some("t1"), Assignee("alice"), Some("Done"),
                       <<JStr("bug")>>)
    IN  { Malformed(doc, {"labels"}), Malformed(doc, {"status"}),
          Malformed(doc, {"assignee"}), Malformed(doc, {"fields"}),
          Malformed(doc, {"issue"}),
          Payload(None, None, None, None, <<>>) }

NextShape ==
    \E r \in Reqs :
        \/ \E payload \in ShapePayloads, store_ok \in BOOLEAN : Deliver(r, payload, store_ok)
        \/ \E outcome \in Outcomes : GitlabAnswer(r, outcome)
        \/ \E link_ok, mark_ok \in BOOLEAN : Resume(r, link_ok, mark_ok)

\* The handler of Spec, fed the documents above.
SpecShape == InitStatus /\ [][NextShape]_vars

\* ------------------------------------------------------------------ claims

Done(r) == req[r].pc = "done"
Resp(r) == req[r].resp[1]

\* The request has returned a WebhookResponse (a 200).
Acked(r) == Done(r) /\ Resp(r).ok

\* Request r takes its first step / its last step after a target call.
Delivers(r) == req[r].pc = "idle" /\ req'[r].pc # "idle"
Resumes(r) == req[r].pc \in {"create_answered", "update_answered"} /\ req'[r].pc = "done"

HasFingerprint(tbl, fp) == \E row \in tbl : row.event_fingerprint = fp
LinksOf(tbl, jira_key) == {row \in tbl : row.jira_key = jira_key}

\* The calls the target system has answered for request r.
CallsOf(r) == {i \in DOMAIN gitlab_log : gitlab_log[i].r = r}

\* The source key and the assignee of the event a request carries.
KeyOf(rec) == jira_extract(rec.payload[1]).key
AssigneeOf(rec) == jira_extract(rec.payload[1]).assignee

\* The scope rule of the specification, stated on the allow-list.
InScope(assignee) ==
    /\ assignee # None
    /\ assignee[1] # ""
    /\ \/ allowed = <<>>
       \/ \E i \in DOMAIN allowed : allowed[i] = assignee[1]

\* C1: a delivery that starts after a delivery of the same fingerprint has
\* returned a successful acknowledgment is answered `dedup` at once, sends no
\* call to the target system and leaves both tables as they were.
C1_DedupAfterAck ==
    [][\A r2 \in Reqs :
        (/\ Delivers(r2)
         /\ \E r1 \in Reqs : Acked(r1) /\ req[r1].fp = req'[r2].fp)
        => /\ req'[r2].pc = "done"
           /\ req'[r2].resp = Some(WebhookResponse("dedup", None, None))
           /\ req'[r2].call = None
           /\ gitlab_log' = gitlab_log
           /\ processed' = processed
           /\ links' = links]_vars

\* C1 witness: a delivery was mirrored (created) and a second delivery of the
\* same fingerprint was answered dedup without a call.
C1_Witness ==
    \E r1, r2 \in Reqs :
        /\ r1 # r2
        /\ Acked(r1) /\ Resp(r1).action = "created"
        /\ Acked(r2) /\ Resp(r2).action = "dedup"
        /\ req[r1].fp = req[r2].fp
        /\ CallsOf(r2) = {}

\* C2: at most one successful create-or-update call per fingerprint, under
\* any interleaving of deliveries.
C2_AtMostOneCallPerFingerprint ==
    \A i, j \in DOMAIN gitlab_log :
        (/\ gitlab_log[i].outcome = "ok"
         /\ gitlab_log[j].outcome = "ok"
         /\ gitlab_log[i].fp = gitlab_log[j].fp)
        => i = j

\* C3: a request whose target call failed (status >= 300 or transport
\* failure) ends with an error and has written neither table: no table changes
\* when the call is sent nor when the failure is handled; and a redelivery of
\* the same event, while its fingerprint is unmarked, is not answered dedup
\* but sends its own target call.
C3_FailedCallLeavesStore ==
    [][\A r \in Reqs :
        /\ (Delivers(r) /\ req'[r].pc \in {"create_sent", "update_sent"})
           => processed' = processed /\ links' = links
        /\ (Resumes(r) /\ req[r].answer \in {"http_error", "transport_error"})
           => /\ processed' = processed /\ links' = links
              /\ ~req'[r].resp[1].ok
              /\ req'[r].resp[1].status =
                     (IF req[r].answer = "http_error" THEN 502 ELSE 500)
        /\ (/\ Delivers(r)
            /\ ~HasFingerprint(processed, req'[r].fp)
            /\ \E r1 \in Reqs : /\ Done(r1)
                                /\ req[r1].answer \in {"http_error", "transport_error"}
                                /\ req[r1].payload = req'[r].payload)
           => /\ req'[r].pc \in {"create_sent", "update_sent"}
              /\ req'[r].call # None]_vars

\* C3 witness: a request failed at the target call, its fingerprint is not
\* marked, and a redelivery of the same event has its own call in flight.
C3_Witness ==
    \E r1, r2 \in Reqs :
        /\ r1 # r2
        /\ Done(r1) /\ req[r1].answer = "http_error" /\ ~Resp(r1).ok
        /\ ~HasFingerprint(processed, req[r1].fp)
        /\ req[r2].payload = req[r1].payload
        /\ req[r2].pc \in {"create_sent", "update_sent"}

\* C4: at most one Link per source key, and the targetIssueId of an existing
\* Link never changes, under any interleaving of deliveries.
C4_OneLinkImmutableTarget ==
    /\ [](\A a, b \in links : a.jira_key = b.jira_key => a = b)
    /\ [][\A a \in links, b \in links' :
            a.jira_key = b.jira_key => a.gitlab_issue_iid = b.gitlab_issue_iid]_vars

\* The request of a step that ends it.
Finishes(r) == req[r].pc # "done" /\ req'[r].pc = "done"

\* C5: an unprocessed event with a source key, no Link and an in-scope
\* assignee sends one create call and changes no table before the answer; when
\* the create has succeeded the request ends either with action `created`
\* naming the key and the returned identifier, with the one Link of the key
\* holding that identifier and `in-scope` and with the fingerprint marked, or
\* with a storage error.
C5_CreatePath ==
    [][\A r \in Reqs :
        /\ (/\ Delivers(r)
            /\ Truthy(KeyOf(req'[r]))
            /\ ~HasFingerprint(processed, req'[r].fp)
            /\ LinksOf(links, KeyOf(req'[r])[1]) = {}
            /\ InScope(AssigneeOf(req'[r])))
           => /\ req'[r].pc = "create_sent"
              /\ req'[r].call # None
              /\ req'[r].call[1].kind = "create"
              /\ CallsOf(r) = {}
              /\ UNCHANGED <<processed, links, gitlab_log>>
        /\ (Resumes(r) /\ req[r].pc = "create_answered" /\ req[r].answer = "ok")
           => LET k == KeyOf(req[r])[1] IN
              /\ Cardinality(CallsOf(r)) = 1
              /\ \A i \in CallsOf(r) :
                    /\ gitlab_log[i].call.kind = "create"
                    /\ gitlab_log[i].outcome = "ok"
                    /\ \/ /\ req'[r].resp = Some(WebhookResponse("created", Some(k),
                                                                 Some(gitlab_log[i].iid)))
                          /\ LinksOf(links', k) =
                                 {LinkRow(k, gitlab_log[i].iid, clock, "in-scope")}
                          /\ HasFingerprint(processed', req[r].fp)
                       \/ req'[r].resp = Some(ErrorResponse(500, "storage"))]_vars

\* C5 witness: Scenario A has run to its end from an empty store.
C5_Witness ==
    \E r \in Reqs :
        /\ Acked(r) /\ Resp(r).action = "created"
        /\ req[r].link = None
        /\ Resp(r).jira_key = Some("PROJ-1")
        /\ \E row \in links : /\ row.jira_key = "PROJ-1"
                              /\ Some(row.gitlab_issue_iid) = Resp(r).gitlab_iid
                              /\ row.sync_state = "in-scope"
        /\ HasFingerprint(processed, req[r].fp)

\* C6: an unprocessed event with a source key, no Link and an out-of-scope
\* assignee (absent, or not on a non-empty allow-list) sends no call and leaves
\* links unchanged; it ends with action `skip_create_out_of_scope` and its
\* fingerprint marked, or with a storage error and processed unchanged.
C6_SkipOutOfScope ==
    [][\A r \in Reqs :
        (/\ Delivers(r)
         /\ Truthy(KeyOf(req'[r]))
         /\ ~HasFingerprint(processed, req'[r].fp)
         /\ LinksOf(links, KeyOf(req'[r])[1]) = {}
         /\ ~InScope(AssigneeOf(req'[r])))
        => /\ req'[r].pc = "done"
           /\ req'[r].call = None
           /\ UNCHANGED <<links, gitlab_log, gitlab_next_iid>>
           /\ \/ /\ req'[r].resp = Some(WebhookResponse("skip_create_out_of_scope",
                                                        KeyOf(req'[r]), None))
                 /\ processed' = processed \cup {ProcessedRow(req'[r].fp, clock)}
              \/ /\ req'[r].resp = Some(ErrorResponse(500, "storage"))
                 /\ processed' = processed]_vars

\* C6 witness: the absent-assignee event met a storage error at its mark and
\* left no row; then Scenario C (bob is not on the allow-list, no Link) was
\* skipped and marked; no Link, no call.
C6_Witness ==
    \E r1, r2 \in Reqs :
        /\ Acked(r1) /\ Resp(r1).action = "skip_create_out_of_scope"
        /\ AssigneeOf(req[r1]) = Some("bob") /\ allowed = <<"alice">>
        /\ Done(r2) /\ Resp(r2) = ErrorResponse(500, "storage")
        /\ AssigneeOf(req[r2]) = None
        /\ links = {} /\ gitlab_log = <<>>
        /\ processed = {ProcessedRow(req[r1].fp, 1)}

\* C7: an unprocessed event whose source key has a Link sends an update call
\* (never a create) to the targetIssueId that Link stores; when the update has
\* succeeded the request ends either with action `updated` and the Link's
\* syncState set from the event's scope alone, or with a storage error.
C7_UpdatePath ==
    [][\A r \in Reqs :
        /\ (/\ Delivers(r)
            /\ Truthy(KeyOf(req'[r]))
            /\ ~HasFingerprint(processed, req'[r].fp)
            /\ LinksOf(links, KeyOf(req'[r])[1]) # {})
           => /\ req'[r].pc = "update_sent"
              /\ req'[r].call # None
              /\ req'[r].call[1].kind = "update"
              /\ \A row \in LinksOf(links, KeyOf(req'[r])[1]) :
                    req'[r].call[1].iid = row.gitlab_issue_iid
              /\ UNCHANGED <<processed, links, gitlab_log>>
        /\ (Resumes(r) /\ req[r].pc = "update_answered" /\ req[r].answer = "ok")
           => LET k == KeyOf(req[r])[1]
                  iid == req[r].call[1].iid
              IN
              /\ \A i \in CallsOf(r) : gitlab_log[i].call.kind = "update"
              /\ \/ /\ req'[r].resp = Some(WebhookResponse("updated", Some(k), Some(iid)))
                    /\ LinksOf(links', k) =
                           {LinkRow(k, iid, clock,
                                    IF InScope(AssigneeOf(req[r])) THEN "in-scope"
                                    ELSE "out-of-scope")}
                    /\ HasFingerprint(processed', req[r].fp)
                 \/ req'[r].resp = Some(ErrorResponse(500, "storage"))]_vars

\* C7 witness: one update turned an in-scope Link out-of-scope and another
\* turned an out-of-scope Link in-scope, both addressed to the stored iid.
C7_Witness ==
    \E r1, r2 \in Reqs :
        /\ Acked(r1) /\ Resp(r1).action = "updated"
        /\ req[r1].link[1].sync_state = "in-scope" /\ ~req[r1].in_scope
        /\ Acked(r2) /\ Resp(r2).action = "updated"
        /\ req[r2].link[1].sync_state = "out-of-scope" /\ req[r2].in_scope
        /\ req[r2].call[1].iid = req[r2].link[1].gitlab_issue_iid
        /\ \E row \in links : row.jira_key = "PROJ-1" /\ row.sync_state = "in-scope"

\* The labels the target system reads from the comma-separated form field
\* `labels` of a call.
RECURSIVE SplitFrom(_, _)
SplitFrom(s, cur) ==
    IF s = "" THEN <<cur>>
    ELSE IF Head(s) = "," THEN <<cur>> \o SplitFrom(Tail(s), "")
    ELSE SplitFrom(Tail(s), cur \o Head(s))

Split(s) == IF s = "" THEN <<>> ELSE SplitFrom(s, "")

\* C8: the update call of an out-of-scope event carries the assignee field,
\* empty, and a label set that holds the out-of-scope marker and not the
\* in-scope marker.
C8_OutOfScopeUpdateCall ==
    \A r \in Reqs :
        (/\ req[r].call # None
         /\ req[r].call[1].kind = "update"
         /\ ~InScope(AssigneeOf(req[r])))
        => /\ req[r].call[1].has_assignee_ids
           /\ req[r].call[1].assignee_ids = <<>>
           /\ InSeq(LABEL_OUT_OF_SCOPE, Split(req[r].call[1].labels))
           /\ ~InSeq(LABEL_IN_SCOPE, Split(req[r].call[1].labels))

\* C9: a request that ends with a successful acknowledgment other than dedup
\* has its fingerprint in processed at that moment; a request without a source
\* key reads and writes no Link and sends no call.
C9_AckImpliesMarked ==
    [][\A r \in Reqs :
        /\ (Finishes(r) /\ req'[r].resp[1].ok /\ req'[r].resp[1].action # "dedup")
           => /\ req'[r].resp[1].action \in
                    {"created", "updated", "skip_no_key", "skip_create_out_of_scope"}
              /\ HasFingerprint(processed', req'[r].fp)
        /\ (Delivers(r) /\ ~Truthy(KeyOf(req'[r])) /\ ~HasFingerprint(processed, req'[r].fp))
           => /\ req'[r].pc = "done"
              /\ req'[r].link = None /\ req'[r].call = None
              /\ UNCHANGED <<links, gitlab_log>>
              /\ \/ req'[r].resp = Some(WebhookResponse("skip_no_key", None, None))
                 \/ req'[r].resp = Some(ErrorResponse(500, "storage"))]_vars

\* C9 witness: a delivery without a key was answered skip_no_key and marked,
\* the store's links and the target untouched.
C9_Witness ==
    \E r \in Reqs :
        /\ Acked(r) /\ Resp(r).action = "skip_no_key"
        /\ HasFingerprint(processed, req[r].fp)
        /\ req[r].fp = "jira:issue_updated||t1"
        /\ CallsOf(r) = {}

\* C10 as stated: whenever a request ends, a Link change it committed is
\* accompanied by its fingerprint in processed.
C10_NoLinkWithoutMark ==
    [][\A r \in Reqs :
        (Finishes(r) /\ links' # links) => HasFingerprint(processed', req'[r].fp)]_vars

\* C10 amended: a request that fails at the target call or at the Link write
\* ends with links unchanged; a request that ends having changed links has its
\* fingerprint in processed unless it ends with the storage error of the mark.
C10_LinkMarkedUnlessMarkFails ==
    [][\A r \in Reqs :
        Finishes(r) =>
          /\ req[r].answer \in {"http_error", "transport_error"} => links' = links
          /\ links' # links =>
               \/ /\ req'[r].resp[1].ok
                  /\ HasFingerprint(processed', req'[r].fp)
               \/ /\ req'[r].resp = Some(ErrorResponse(500, "storage"))
                  /\ processed' = processed]_vars

\* C10 witness: a request ended with a storage error after its Link write: the
\* Link holds the iid of its create call and its fingerprint is unmarked.
C10_Witness ==
    \E r \in Reqs :
        /\ Done(r) /\ Resp(r) = ErrorResponse(500, "storage")
        /\ req[r].answer = "ok" /\ req[r].link = None
        /\ \E row \in links : row.jira_key = "PROJ-1" /\ row.gitlab_issue_iid = req[r].iid
        /\ ~HasFingerprint(processed, req[r].fp)

\* No other request is between its first step and its return.
Alone(r) == \A q \in Reqs \ {r} : req[q].pc \in {"new", "idle", "done"}

\* An earlier request for this payload whose create call succeeded and whose
\* Link write went through, but which ended with the storage error of the mark.
CreatedUnmarked(r1, payload) ==
    /\ Done(r1) /\ req[r1].payload = payload
    /\ req[r1].call # None /\ req[r1].call[1].kind = "create"
    /\ req[r1].answer = "ok"
    /\ Resp(r1) = ErrorResponse(500, "storage")
    /\ LinksOf(links, KeyOf(req[r1])[1]) # {}
    /\ ~HasFingerprint(processed, req[r1].fp)

\* C11: with deliveries that do not overlap, the redelivery of an event whose
\* create call and Link write succeeded but whose mark failed sends an update
\* call to the target identifier the Link stores and no create call; a create
\* call for a key is sent only while links holds no row for the key, and a
\* row once written for a key is never removed.
C11_RedeliveryUpdates ==
    [][/\ \A r \in Reqs :
           (Delivers(r) /\ Alone(r)) =>
             /\ (\E r1 \in Reqs \ {r} : CreatedUnmarked(r1, req'[r].payload)) =>
                  /\ req'[r].pc = "update_sent"
                  /\ req'[r].call[1].kind = "update"
                  /\ \E row \in LinksOf(links, KeyOf(req'[r])[1]) :
                         req'[r].call[1].iid = row.gitlab_issue_iid
             /\ (req'[r].call # None /\ req'[r].call[1].kind = "create") =>
                  LinksOf(links, KeyOf(req'[r])[1]) = {}
       /\ \A row \in links : LinksOf(links', row.jira_key) # {}]_vars

\* C11 witness: the first request created issue 1, wrote the Link and failed
\* at the mark; the redelivery of its event has sent an update for issue 1.
C11_Witness ==
    \E r1, r2 \in Reqs :
        /\ r1 # r2
        /\ CreatedUnmarked(r1, req[r2].payload)
        /\ req[r1].link = None
        /\ req[r2].pc = "update_sent"
        /\ req[r2].call[1].kind = "update"
        /\ req[r2].call[1].iid = req[r1].iid
        /\ gitlab_log # <<>> /\ gitlab_log[Len(gitlab_log)].r = r1

\* Request r runs lines 252-258.
Admits(r) == req[r].pc = "new" /\ req'[r].pc # "new"

\* The secret is configured and neither token of the request equals it.
BadToken(rec) ==
    /\ env.JIRA_SHARED_SECRET # ""
    /\ rec.x_sync_token # Some(env.JIRA_SHARED_SECRET)
    /\ rec.token # Some(env.JIRA_SHARED_SECRET)

\* A request ended by the authorization or the configuration check.
Rejected(r) ==
    /\ Done(r)
    /\ Resp(r) \in {ErrorResponse(401, "Bad token"),
                    ErrorResponse(500, "GitLab env is not configured")}

\* C12: a request whose tokens both differ from a configured secret is
\* answered 401 at once, and otherwise a request under a configuration with a
\* missing target-system setting is answered 500 at once; either way the
\* request has read no event, both tables and the target system are as they
\* were, and the request sends no call later.  Any other request goes on.
C12_RejectedBeforeProcessing ==
    [][\A r \in Reqs :
        /\ Admits(r) =>
             /\ BadToken(req'[r]) =>
                  req'[r].resp = Some(ErrorResponse(401, "Bad token"))
             /\ (~BadToken(req'[r]) /\ gitlab_env_missing) =>
                  req'[r].resp = Some(ErrorResponse(500, "GitLab env is not configured"))
             /\ (~BadToken(req'[r]) /\ ~gitlab_env_missing) => req'[r].pc = "idle"
             /\ (BadToken(req'[r]) \/ gitlab_env_missing) =>
                  /\ req'[r].pc = "done"
                  /\ req'[r].payload = None /\ req'[r].call = None
                  /\ UNCHANGED <<processed, links, gitlab_next_iid, gitlab_log, clock>>
        /\ Rejected(r) => (req'[r] = req[r] /\ CallsOf(r) = {})]_vars

\* C12 witness: under a configured secret, one request with a wrong header
\* token and no query token was answered 401 and one with the secret in the
\* query parameter alone went on to create issue 1; the store holds the rows
\* of the second request only.
C12_Witness ==
    \E r1, r2 \in Reqs :
        /\ env.JIRA_SHARED_SECRET = "s3cret" /\ ~gitlab_env_missing
        /\ req[r1].x_sync_token = Some("wrong") /\ req[r1].token = None
        /\ Done(r1) /\ Resp(r1) = ErrorResponse(401, "Bad token")
        /\ req[r2].x_sync_token = None /\ req[r2].token = Some("s3cret")
        /\ Acked(r2) /\ Resp(r2).action = "created"
        /\ processed = {ProcessedRow(req[r2].fp, 1)}
        /\ links = {LinkRow("PROJ-1", 1, 0, "in-scope")}
        /\ Len(gitlab_log) = 1 /\ gitlab_log[1].r = r2

\* C12 witness of the second sentence: no secret is configured, the project
\* id is missing, and a request was answered 500 with the seeded store and the
\* target system untouched.
C12_WitnessMisconfigured ==
    \E r \in Reqs :
        /\ env.JIRA_SHARED_SECRET = "" /\ env.GITLAB_PROJECT_ID = ""
        /\ Done(r) /\ Resp(r) = ErrorResponse(500, "GitLab env is not configured")
        /\ links = {LinkRow("PROJ-1", 1, 0, "in-scope")}
        /\ gitlab_log = <<>>

\* C13: _is_in_scope(assignee) is true iff the assignee is non-empty and the
\* allow-list is empty or holds the assignee; it is false for an absent or
\* empty assignee under every allow-list, and true for every non-empty
\* assignee under the empty allow-list.
C13_ScopeRule ==
    pure.fn = "is_in_scope" =>
        /\ pure.out = InScope(pure.assignee)
        /\ pure.assignee \in {None, Some("")} => ~pure.out
        /\ (allowed = <<>> /\ pure.assignee \notin {None, Some("")}) => pure.out

\* C13 witness: under the allow-list <<alice, bob>> the assignee carol was
\* found out of scope.
C13_Witness ==
    /\ pure.fn = "is_in_scope" /\ allowed = <<"alice", "bob">>
    /\ pure.assignee = Some("carol") /\ ~pure.out

\* The label the merge adds for a status.
StatusLabel(status) ==
    LABEL_PREFIX_STATUS \o (IF status # "" THEN status ELSE "unknown")

\* C14: the output of _labels_merge holds exactly one label with the status
\* prefix, the one of the given status (or of `unknown`), exactly one scope
\* marker, the one of the given flag, and no label twice; merging the output
\* again with the same status and flag returns the output.
C14_LabelsMerge ==
    pure.fn = "labels_merge" =>
        LET out == pure.out
            statusAt == {i \in DOMAIN out : StartsWith(out[i], LABEL_PREFIX_STATUS)}
            scopeAt == {i \in DOMAIN out : out[i] \in {LABEL_IN_SCOPE, LABEL_OUT_OF_SCOPE}}
        IN  /\ Cardinality(statusAt) = 1
            /\ \A i \in statusAt : out[i] = StatusLabel(pure.status)
            /\ Cardinality(scopeAt) = 1
            /\ \A i \in scopeAt :
                   out[i] = IF pure.in_scope THEN LABEL_IN_SCOPE ELSE LABEL_OUT_OF_SCOPE
            /\ \A i, j \in DOMAIN out : out[i] = out[j] => i = j
            /\ pure.again # None => pure.again[1] = out

\* C14 witness: a list holding a stale status label and the out-of-scope
\* marker was merged for status Open, in scope, and merged again.
C14_Witness ==
    /\ pure.fn = "labels_merge"
    /\ pure.jira_labels = <<JStr("jira:status:Done"), JStr(LABEL_OUT_OF_SCOPE \o " ")>>
    /\ pure.status = "Open" /\ pure.in_scope
    /\ pure.out = <<"jira:status:Open", LABEL_IN_SCOPE>>
    /\ pure.again = Some(pure.out)

\* C15: the result of _build_description contains the marker of the key, a
\* description that contains the marker is returned as it is, and building
\* again from the result returns the result.
C15_BuildDescription ==
    pure.fn = "build_description" =>
        LET marker == SYNC_MARKER_PREFIX \o " " \o pure.jira_key
        IN  /\ Contains(pure.out, marker)
            /\ Contains(pure.jira_desc, marker) => pure.out = pure.jira_desc
            /\ pure.again # None => pure.again[1] = pure.out

\* C15 witness: a description without the marker of PROJ-10 got it appended,
\* and building again returned the same text.
C15_Witness ==
    /\ pure.fn = "build_description" /\ pure.jira_key = "PROJ-10"
    /\ pure.jira_desc = "text JIRA_KEY: PROJ-1"
    /\ pure.out = "text JIRA_KEY: PROJ-1\n\n---\nJIRA_KEY: PROJ-10"
    /\ pure.again = Some(pure.out)

\* Request r has sent a create call and has not ended with an error.
Creates(r) ==
    /\ req[r].call # None /\ req[r].call[1].kind = "create"
    /\ Done(r) => Resp(r).ok

\* C16: among the requests that have not failed, at most one has sent a create
\* call for a given source key, whatever the interleaving.
C16_AtMostOneCreatePerKey ==
    \A r1, r2 \in Reqs :
        (Creates(r1) /\ Creates(r2) /\ KeyOf(req[r1]) = KeyOf(req[r2])) => r1 = r2

\* The last call the target system applied to issue iid, as an index of the log.
LastApplied(iid) ==
    CHOOSE i \in DOMAIN gitlab_log :
        /\ gitlab_log[i].outcome = "ok" /\ gitlab_log[i].iid = iid
        /\ \A j \in DOMAIN gitlab_log :
               (gitlab_log[j].outcome = "ok" /\ gitlab_log[j].iid = iid) => j <= i

\* C17: when every request has returned and two of them, for the same key and
\* an existing Link, were acknowledged `updated`, the Link's sync_state is the
\* scope state of the request whose update the target system applied last.
C17_LinkAgreesWithLastUpdate ==
    \A r1, r2 \in Reqs :
        (/\ r1 # r2
         /\ \A q \in Reqs : req[q].pc \in {"idle", "done"}
         /\ \A q \in Reqs \ {r1, r2} : CallsOf(q) = {}
         /\ Acked(r1) /\ Resp(r1).action = "updated"
         /\ Acked(r2) /\ Resp(r2).action = "updated"
         /\ KeyOf(req[r1]) = KeyOf(req[r2]))
        => \A row \in LinksOf(links, KeyOf(req[r1])[1]) :
               row.sync_state =
                   sync_state_of(req[gitlab_log[LastApplied(row.gitlab_issue_iid)].r].in_scope)

\* How far a request has come: body read, call sent, call answered, returned.
Rank(pc) ==
    IF pc \in {"new", "idle"} THEN 0
    ELSE IF pc \in {"create_sent", "update_sent"} THEN 1
    ELSE IF pc \in {"create_answered", "update_answered"} THEN 2
    ELSE 3

\* C18: a request moves forward only (reads, then at most one target call,
\* then the Link write, then the mark) and the target system answers at most
\* one call per request; links changes only when a request whose own call was
\* answered 2xx resumes; processed changes only in the step in which the
\* marking request returns, and a mark written beside a Link write is written
\* after it; a request answered `dedup` or without a key has read no Link and
\* sent no call.
C18_StepOrder ==
    [][/\ \A r \in Reqs :
           /\ Rank(req'[r].pc) >= Rank(req[r].pc)
           /\ (req'[r].call # req[r].call) => (Delivers(r) /\ req[r].call = None)
           /\ Cardinality({i \in DOMAIN gitlab_log' : gitlab_log'[i].r = r}) <= 1
           /\ (Done(r) /\ Resp(r).action \in {"dedup", "skip_no_key"})' =>
                  (req'[r].link = None /\ req'[r].call = None)
       /\ gitlab_log' # gitlab_log =>
              \E r \in Reqs : /\ Rank(req[r].pc) = 1 /\ Rank(req'[r].pc) = 2
                              /\ links' = links /\ processed' = processed
       /\ links' # links =>
              \E r \in Reqs : /\ Resumes(r) /\ req[r].answer = "ok"
                              /\ \E i \in CallsOf(r) : gitlab_log[i].outcome = "ok"
       /\ processed' # processed =>
              \E r \in Reqs :
                  /\ Finishes(r) /\ req'[r].resp[1].ok
                  /\ processed' = processed \cup {ProcessedRow(req'[r].fp, clock' - 1)}
                  /\ links' # links =>
                         \A row \in LinksOf(links', KeyOf(req'[r])[1]) :
                             row.last_synced_at < clock' - 1]_vars

\* C18 witness: a request created issue 1 with one call, wrote the Link at
\* time 0 and the mark at time 1, and returned `created`.
C18_Witness ==
    \E r \in Reqs :
        /\ Acked(r) /\ Resp(r).action = "created"
        /\ Cardinality(CallsOf(r)) = 1
        /\ links = {LinkRow("PROJ-1", req[r].iid, 0, "in-scope")}
        /\ ProcessedRow(req[r].fp, 1) \in processed
        /\ clock = 2

\* The status of the event a request carries.
StatusOf(rec) == jira_extract(rec.payload[1]).status

\* The labels field of a call, as the target system reads it.
LabelsOf(call) == Split(call.labels)

\* C19: a create call carries state_event `close` iff the status of its event
\* is in the done-set, and carries no state_event otherwise; it never carries
\* `reopen`.
C19_CreateToken ==
    \A r \in Reqs :
        (req[r].call # None /\ req[r].call[1].kind = "create") =>
            /\ req[r].call[1].state_event = Some("close") <=> StatusOf(req[r]) \in DONE_STATUSES
            /\ StatusOf(req[r]) \notin DONE_STATUSES => req[r].call[1].state_event = None
            /\ req[r].call[1].state_event # Some("reopen")

\* C19 witness: one request created an issue for status Open with no
\* state_event, another has sent a create for status Done with `close`.
C19_Witness ==
    \E r1, r2 \in Reqs :
        /\ Acked(r1) /\ Resp(r1).action = "created" /\ StatusOf(req[r1]) = "Open"
        /\ req[r1].call[1].kind = "create" /\ req[r1].call[1].state_event = None
        /\ req[r2].pc = "create_sent" /\ StatusOf(req[r2]) = "Done"
        /\ req[r2].call[1].state_event = Some("close")

\* C20: an update call carries `close` for a status in the done-set, `reopen`
\* for any other non-empty status and no state_event for an empty status; its
\* labels hold the status label of the event, and the in-scope marker when the
\* assignee is in scope.
C20_UpdateToken ==
    \A r \in Reqs :
        (req[r].call # None /\ req[r].call[1].kind = "update") =>
            LET status == StatusOf(req[r])
                call == req[r].call[1]
            IN  /\ call.state_event =
                       IF status = "" THEN None
                       ELSE IF status \in DONE_STATUSES THEN Some("close")
                       ELSE Some("reopen")
                /\ InSeq(StatusLabel(status), LabelsOf(call))
                /\ InScope(AssigneeOf(req[r])) => InSeq(LABEL_IN_SCOPE, LabelsOf(call))

\* C20 witness: for the Link PROJ-1 -> 1, an in-scope event with status Done
\* was applied as an update of issue 1 with `close` and the labels
\* bug, jira:status:Done, sync:in-scope, and an event with status Open has
\* sent an update with `reopen`.
C20_Witness ==
    \E r1, r2 \in Reqs :
        /\ Acked(r1) /\ Resp(r1).action = "updated"
        /\ req[r1].call[1] = gitlab_update_issue(1, "Fix login", "JIRA_KEY: PROJ-1",
               <<"bug", "jira:status:Done", "sync:in-scope">>, <<7>>, Some("close"))
        /\ req[r2].pc = "update_sent" /\ StatusOf(req[r2]) = "Open"
        /\ req[r2].call[1].state_event = Some("reopen")

\* C21: whatever the shape of issue, fields, status, assignee or labels, no
\* request ends with the 500 of a raised AttributeError, and a request whose
\* document has no source key ends `skip_no_key` (or `dedup`, or with the
\* storage error of its mark).
C21_MalformedDegrades ==
    \A r \in Reqs :
        Done(r) =>
            /\ Resp(r) # ErrorResponse(500, "AttributeError")
            /\ req[r].payload[1].key = None =>
                   Resp(r).action \in {"skip_no_key", "dedup", "storage"}

\* What does hold: a document whose labels are no list is handled with no
\* source labels, and a document without `issue` ends skip_no_key.
C21_LabelsAndMissingDegrade ==
    \A r \in Reqs :
        (Done(r) /\ req[r].payload[1].bad \subseteq {"labels"}) =>
            /\ Resp(r) # ErrorResponse(500, "AttributeError")
            /\ req[r].payload[1].key = None =>
                   Resp(r).action \in {"skip_no_key", "dedup", "storage"}
            /\ req[r].call # None =>
                   LabelsOf(req[r].call[1]) = <<"jira:status:Done", "sync:in-scope">>

\* The three parts of a document the specification names for the fingerprint.
EventTypeOf(rec) ==
    IF rec.payload[1].webhookEvent # None THEN rec.payload[1].webhookEvent
    ELSE rec.payload[1].issue_event_type_name
UpdatedOf(rec) == rec.payload[1].updated

\* Equal (event type, key, updated) give equal fingerprints whatever else the
\* documents hold; equal event type and key with different `updated` give
\* different fingerprints; processed holds one row per fingerprint.
C22_Fingerprints ==
    /\ \A r1, r2 \in Reqs :
           (req[r1].payload # None /\ req[r2].payload # None
            /\ EventTypeOf(req[r1]) = EventTypeOf(req[r2])
            /\ KeyOf(req[r1]) = KeyOf(req[r2])) =>
               (UpdatedOf(req[r1]) = UpdatedOf(req[r2])) <=> (req[r1].fp = req[r2].fp)
    /\ \A row1, row2 \in processed :
           row1.event_fingerprint = row2.event_fingerprint => row1 = row2

\* A delivery whose fingerprint is in processed is answered `dedup`; one whose
\* fingerprint is not there is not, and sends an update call when its key has
\* a Link.
C22_Delivery ==
    \A r \in Reqs :
        Delivers(r) =>
            IF HasFingerprint(processed, req'[r].fp)
            THEN req'[r].resp = Some(WebhookResponse("dedup", None, None))
            ELSE /\ req'[r].resp # Some(WebhookResponse("dedup", None, None))
                 /\ (Truthy(KeyOf(req'[r])) /\ LinksOf(links, KeyOf(req'[r])[1]) # {}) =>
                        /\ req'[r].pc = "update_sent"
                        /\ req'[r].call[1].kind = "update"

\* C22: the fingerprint is decided by event type, source key and `updated`
\* alone: deliveries that differ in other fields share one processed row and
\* the later one is answered `dedup`, while a delivery for the same key and
\* event type with another `updated` has another fingerprint, is not answered
\* `dedup` and, when a Link exists, sends its own update call.
C22_FingerprintDecides == [](C22_Fingerprints) /\ [][C22_Delivery]_vars

\* C22 witness: after the delivery with updated t0 that left the Link, a
\* delivery with updated t2 was applied as an update of its own, and a second
\* delivery with updated t2 but another assignee, status and labels was
\* answered `dedup`; processed holds the rows of t0 and of t2.
C22_Witness ==
    \E r1, r2 \in Reqs :
        /\ Acked(r1) /\ Resp(r1).action = "updated"
        /\ Acked(r2) /\ Resp(r2).action = "dedup"
        /\ req[r1].fp = "jira:issue_updated|PROJ-1|t2" /\ req[r2].fp = req[r1].fp
        /\ AssigneeOf(req[r1]) # AssigneeOf(req[r2])
        /\ req[r1].payload[1].labels # req[r2].payload[1].labels
        /\ processed = {ProcessedRow("jira:issue_updated|PROJ-1|t0", 1),
                        ProcessedRow(req[r1].fp, 3)}

\* C23: the assignee identifiers of a call are none, or the one identifier the
\* lookup table holds for the assignee of the event; they are none when the
\* assignee is out of scope or absent, or has no entry or no numeric entry in
\* the table.
C23_AssigneeIds ==
    pure.fn = "assignee_ids" =>
        LET a == pure.assignee
            mapped == /\ a # None /\ a[1] \in DOMAIN JIRA_TO_GITLAB_USER_ID
                      /\ JIRA_TO_GITLAB_USER_ID[a[1]].numeric
        IN  /\ pure.out = <<>> \/ (mapped /\ pure.out = <<JIRA_TO_GITLAB_USER_ID[a[1]].n>>)
            /\ (~InScope(a) \/ a = None \/ ~mapped) => pure.out = <<>>
            /\ (InScope(a) /\ mapped) => pure.out # <<>>

\* C23 witness: alice, who has identifier 7 in the table, is not on the
\* allow-list <<bob>>, and no identifier was sent.
C23_Witness ==
    /\ pure.fn = "assignee_ids" /\ allowed = <<"bob">>
    /\ pure.assignee = Some("alice") /\ ~pure.in_scope /\ pure.out = <<>>

\* Under the empty allow-list alice's identifier 7 was sent.
C23_WitnessMapped ==
    /\ pure.fn = "assignee_ids" /\ allowed = <<>>
    /\ pure.assignee = Some("alice") /\ pure.out = <<7>>

====
